---- MODULE Spec2Model ----
(***************************************************************************)
(* Model of the chat component ChatInterface of src/src/app/page.tsx       *)
(* (the TypeScript component, lines 216-554): the message store, the       *)
(* sendMessage dispatcher with its two suspension points (fetch and        *)
(* response.json), the response normalisation, the error text mapping and  *)
(* the theme preference kept in localStorage.                              *)
(*                                                                         *)
(* Strings are sequences of fragments.  Text that the code inspects        *)
(* (trim, includes, the status interpolated into an error text) is written *)
(* one character per fragment; the fixed display sentences of the source   *)
(* and the JSON object keys are written as one fragment each.              *)
(*                                                                         *)
(* An event handler and the render that follows it are one step: React     *)
(* commits the state updates of a discrete event before the next event is  *)
(* dispatched, so a handler always closes over the current state.  The     *)
(* continuation of sendMessage after an await keeps the `messages` it      *)
(* closed over when it was called; the model keeps that length in the      *)
(* record of the pending call.                                             *)
(***************************************************************************)
EXTENDS Integers, Sequences, FiniteSets, TLC

\* ------------------------------------------------------------------ bounds
\* Largest message store explored: the greeting and two full exchanges.
MaxMessages == 5

\* ------------------------------------------------------- JavaScript values
JUndefined == [t |-> "undefined"]
JNull == [t |-> "null"]
JStr(s) == [t |-> "string", s |-> s]
JNum(n) == [t |-> "number", n |-> n]
JBool(b) == [t |-> "boolean", b |-> b]
\* an object is its sequence of <<key, value>> pairs, in insertion order
JObj(ps) == [t |-> "object", ps |-> ps]
JArr(xs) == [t |-> "array", xs |-> xs]

\* ToBoolean, as applied by `!x`, `x || y` and `if (x)`
Truthy(v) ==
  CASE v.t = "undefined" -> FALSE
    [] v.t = "null" -> FALSE
    [] v.t = "string" -> v.s # <<>>
    [] v.t = "number" -> v.n # 0
    [] v.t = "boolean" -> v.b
    [] OTHER -> TRUE

\* the typeof operator
TypeOf(v) ==
  CASE v.t \in {"null", "object", "array"} -> "object"
    [] OTHER -> v.t

\* property read v.k on a value that is neither null nor undefined
GetProp(v, k) ==
  IF v.t = "object" /\ \E i \in 1..Len(v.ps) : v.ps[i][1] = k
  THEN LET i == CHOOSE j \in 1..Len(v.ps) : v.ps[j][1] = k IN v.ps[i][2]
  ELSE JUndefined

\* ------------------------------------------------------------ string ops
WhiteSpace == {" ", "\t", "\n"}

RECURSIVE TrimStart(_)
TrimStart(s) ==
  IF s # <<>> /\ Head(s) \in WhiteSpace THEN TrimStart(Tail(s)) ELSE s

RECURSIVE TrimEnd(_)
TrimEnd(s) ==
  IF s # <<>> /\ s[Len(s)] \in WhiteSpace
  THEN TrimEnd(SubSeq(s, 1, Len(s) - 1)) ELSE s

\* String.prototype.trim
Trim(s) == TrimEnd(TrimStart(s))

\* String.prototype.includes
Includes(s, needle) ==
  \E i \in 0..(Len(s) - Len(needle)) : SubSeq(s, i + 1, i + Len(needle)) = needle

DigitChars == <<"0", "1", "2", "3", "4", "5", "6", "7", "8", "9">>

\* decimal rendering of a non-negative integer (template interpolation,
\* JSON.stringify of a number)
RECURSIVE NumberToString(_)
NumberToString(n) ==
  IF n < 10 THEN <<DigitChars[n + 1]>>
  ELSE NumberToString(n \div 10) \o <<DigitChars[(n % 10) + 1]>>

\* JSON.stringify of a string: quotes, with quote and backslash escaped
RECURSIVE QuoteChars(_)
QuoteChars(s) ==
  IF s = <<>> THEN <<>>
  ELSE (IF Head(s) \in {"\"", "\\"} THEN <<"\\", Head(s)>> ELSE <<Head(s)>>)
       \o QuoteChars(Tail(s))

RECURSIVE Stringify(_)
RECURSIVE StringifyItems(_)
RECURSIVE StringifyPairs(_)
\* the elements of an array, comma separated
StringifyItems(xs) ==
  IF xs = <<>> THEN <<>>
  ELSE Stringify(Head(xs))
       \o (IF Tail(xs) = <<>> THEN <<>> ELSE <<",">> \o StringifyItems(Tail(xs)))
\* the members of an object, comma separated
StringifyPairs(ps) ==
  IF ps = <<>> THEN <<>>
  ELSE <<"\"", Head(ps)[1], "\"", ":">> \o Stringify(Head(ps)[2])
       \o (IF Tail(ps) = <<>> THEN <<>> ELSE <<",">> \o StringifyPairs(Tail(ps)))
\* JSON.stringify of a decoded JSON value, as a string
Stringify(v) ==
  CASE v.t = "string" -> <<"\"">> \o QuoteChars(v.s) \o <<"\"">>
    [] v.t = "number" -> NumberToString(v.n)
    [] v.t = "boolean" -> IF v.b THEN <<"t", "r", "u", "e">> ELSE <<"f", "a", "l", "s", "e">>
    [] v.t = "null" -> <<"n", "u", "l", "l">>
    [] v.t = "array" -> <<"[">> \o StringifyItems(v.xs) \o <<"]">>
    [] v.t = "object" -> <<"{">> \o StringifyPairs(v.ps) \o <<"}">>

\* ------------------------------------------------------- texts of the code
GreetingText == <<"Hello! I'm your AI agent. You can ask me anything, including checking weather in different cities. Try typing 'Check weather in Karachi' to see me in action!">>
ConfigErrorText == <<"FASTAPI environment variable is not configured. Please set NEXT_PUBLIC_FASTAPI in your environment variables.">>
FallbackText == <<"I received your message but couldn't generate a proper response.">>
CorsText == <<"Unable to connect to the AI agent. This might be a CORS issue - the API needs to allow requests from this origin.">>
InternalErrorText == <<"The AI agent encountered an internal error. Please try again.">>
NotFoundText == <<"API endpoint not found. Please check the URL.">>
SorryPrefix == <<"Sorry, I encountered an error: ">>
UnknownErrorText == <<"An unknown error occurred.">>
ExampleText == <<"C", "h", "e", "c", "k", " ", "w", "e", "a", "t", "h", "e", "r", " ", "i", "n", " ", "K", "a", "r", "a", "c", "h", "i">>
HttpErrorPrefix == <<"H", "T", "T", "P", " ", "e", "r", "r", "o", "r", "!", " ", "s", "t", "a", "t", "u", "s", ":", " ">>
FailedToFetchText == <<"F", "a", "i", "l", "e", "d", " ", "t", "o", " ", "f", "e", "t", "c", "h">>
Needle500 == <<"5", "0", "0">>
Needle404 == <<"4", "0", "4">>
\* message of the TypeError raised by reading `.response` of null
NullReadText == <<"C", "a", "n", "n", "o", "t", " ", "r", "e", "a", "d", " ", "p", "r", "o", "p", "e", "r", "t", "i", "e", "s", " ", "o", "f", " ", "n", "u", "l", "l", " ", "(", "r", "e", "a", "d", "i", "n", "g", " ", "'", "r", "e", "s", "p", "o", "n", "s", "e", "'", ")">>

\* --------------------------------------------------------- thrown values
\* an Error object with its message
ErrorOf(msg) == [isErrorObject |-> TRUE, message |-> msg]
\* a thrown value that is not an instance of Error
NonError == [isErrorObject |-> FALSE]

\* message of the TypeError of a fetch that could not complete, in a browser
\* that words it differently
LoadFailedText == <<"L", "o", "a", "d", " ", "f", "a", "i", "l", "e", "d">>
\* messages of the SyntaxError of response.json()
JsonEndText == <<"U", "n", "e", "x", "p", "e", "c", "t", "e", "d", " ", "e", "n", "d", " ", "o", "f", " ", "J", "S", "O", "N", " ", "i", "n", "p", "u", "t">>
JsonTokenText == <<"U", "n", "e", "x", "p", "e", "c", "t", "e", "d", " ", "t", "o", "k", "e", "n", " ", "'", "E", "'", ",", " ", "\"", "E", "5", "0", "0", "\"", " ", "i", "s", " ", "n", "o", "t", " ", "v", "a", "l", "i", "d", " ", "J", "S", "O", "N">>

\* ------------------------------------------------------------- the inputs
\* values of process.env.NEXT_PUBLIC_FASTAPI at build time
EndpointValues == {JUndefined, JStr(<<>>), JStr(<<"http://agent/chat">>)}
\* what the user can type into the entry field
Drafts == {<<>>, <<" ", "\t">>, <<"h", "i">>, <<" ", "\"", "a", " ">>}
\* HTTP statuses of a response
Statuses == {200, 201, 400, 404, 500, 502, 503}
\* values a rejected fetch promise can carry
FetchRejections == {ErrorOf(FailedToFetchText), ErrorOf(LoadFailedText), NonError}
\* values a rejected response.json() promise can carry
JsonRejections == {ErrorOf(JsonEndText), ErrorOf(JsonTokenText)}
\* decoded bodies of a successful response
Bodies ==
  { JStr(<<"o", "k">>), JStr(<<>>), JNull, JNum(0), JNum(7), JBool(FALSE), JArr(<<>>),
    JObj(<<>>),
    JObj(<< <<"response", JStr(<<"x">>)>> >>),
    JObj(<< <<"message", JStr(<<"y">>)>> >>),
    JObj(<< <<"content", JStr(<<"z">>)>> >>),
    JObj(<< <<"other", JNum(1)>> >>),
    JObj(<< <<"response", JStr(<<>>)>> >>),
    JObj(<< <<"response", JStr(<<>>)>>, <<"message", JStr(<<"y">>)>> >>),
    JObj(<< <<"message", JStr(<<"y">>)>>, <<"response", JStr(<<"x">>)>> >>),
    JObj(<< <<"content", JStr(<<"z">>)>>, <<"message", JStr(<<"y">>)>> >>) }

\* ------------------------------------------------- sendMessage, pure parts
\* the early return without the trim: a whitespace-only draft passes
Rejected_NoTrim(draft, loading) == draft = <<>> \/ loading

\* the early return without the isLoading test
Rejected_IgnoreLoading(draft, loading) == Trim(draft) = <<>>

\* the early return of sendMessage
Rejected(draft, loading) == Trim(draft) = <<>> \/ loading

\* a test for undefined only: the empty string counts as configured
MissingEndpoint_UndefinedOnly(endpoint) == endpoint = JUndefined

\* `!fastapi`
MissingEndpoint(endpoint) == ~Truthy(endpoint)

\* response.ok
ResponseOk(status) == status \in 200..299

\* the Error thrown for a response that is not ok
HttpError(status) == ErrorOf(HttpErrorPrefix \o NumberToString(status))

\* the body built from the trimmed draft
RequestBody_Trimmed(draft) == Stringify(JObj(<< <<"message", JStr(Trim(draft))>> >>))

\* body of the outbound request
RequestBody(draft) == Stringify(JObj(<< <<"message", JStr(draft)>> >>))

\* reading `data.response` throws a TypeError when data is null
NormalizeThrows(data) == data.t \in {"null", "undefined"}

\* the if/else-if chain that picks responseText out of the decoded body
ResponseText(data) ==
  IF TypeOf(data) = "string" THEN data
  ELSE IF Truthy(GetProp(data, "response")) THEN GetProp(data, "response")
  ELSE IF Truthy(GetProp(data, "message")) THEN GetProp(data, "message")
  ELSE IF TypeOf(data) = "object" /\ Truthy(GetProp(data, "content"))
       THEN GetProp(data, "content")
  ELSE JStr(Stringify(data))

\* `responseText || '...'`
AgentText(responseText) ==
  IF Truthy(responseText) THEN responseText ELSE JStr(FallbackText)

\* the catch block without its '500' branch
ErrorText_No500(error) ==
  IF error.isErrorObject
  THEN IF Includes(error.message, FailedToFetchText) THEN CorsText
       ELSE IF Includes(error.message, Needle404) THEN NotFoundText
       ELSE SorryPrefix \o error.message
  ELSE UnknownErrorText

\* the text chosen in the catch block
ErrorText(error) ==
  IF error.isErrorObject
  THEN IF Includes(error.message, FailedToFetchText) THEN CorsText
       ELSE IF Includes(error.message, Needle500) THEN InternalErrorText
       ELSE IF Includes(error.message, Needle404) THEN NotFoundText
       ELSE SorryPrefix \o error.message
  ELSE UnknownErrorText

\* the Message records of the code (timestamps are left out: nothing reads
\* them but the renderer)
InitialMessage == [id |-> 1, text |-> JStr(GreetingText), sender |-> "agent"]
ConfigErrorMessage(len) ==
  [id |-> len + 2, text |-> JStr(ConfigErrorText), sender |-> "agent", isError |-> TRUE]
UserMessage(len, draft) == [id |-> len + 1, text |-> JStr(draft), sender |-> "user"]
AgentMessage(len, responseText) ==
  [id |-> len + 2, text |-> AgentText(responseText), sender |-> "agent"]
\* the error message numbered like the user message of the same call
ErrorMessage_UserId(len, error) ==
  [id |-> len + 1, text |-> JStr(ErrorText(error)), sender |-> "agent", isError |-> TRUE]
ErrorMessage(len, error) ==
  [id |-> len + 2, text |-> JStr(ErrorText(error)), sender |-> "agent", isError |-> TRUE]

\* the message appended once the body is decoded: the try block from the
\* normalisation on, or the catch block when the normalisation throws
BodyMessage(len, data) ==
  IF NormalizeThrows(data) THEN ErrorMessage(len, ErrorOf(NullReadText))
  ELSE AgentMessage(len, ResponseText(data))

\* no finally block: the flag is left as it was
Finally_Missing(loading) == loading

\* the finally block: the flag after setIsLoading(false)
Finally(loading) == FALSE

\* -------------------------------------------------------- theme, pure parts
DarkEntry == JStr(<<"dark">>)
LightEntry == JStr(<<"light">>)

\* the initialising effect without the saved theme
InitialDark_PrefersOnly(savedTheme, prefers) == prefers

\* the value the initialising effect passes to setIsDarkMode
InitialDark(savedTheme, prefers) ==
  savedTheme = DarkEntry \/ (~Truthy(savedTheme) /\ prefers)

\* localStorage.setItem('theme', ...) of the applying effect
ApplyTheme(storage, dark) ==
  [storage EXCEPT !.theme = IF dark THEN DarkEntry ELSE LightEntry]

\* ------------------------------------------------------------------ state
VARIABLES
  fastapi,       \* the module constant read from the environment
  messages,      \* useState: the message store
  inputMessage,  \* useState: the draft
  isLoading,     \* useState: the pending flag
  isDarkMode,    \* useState: the theme flag
  mounted,       \* whether the mount effects of this page load have run
  darkClass,     \* whether <html> carries the class `dark`
  localStorage,  \* the browser's store, kept across reloads
  prefersDark,   \* matchMedia('(prefers-color-scheme: dark)').matches
  pending,       \* the sendMessage calls suspended at an await
  requests,      \* the fetch calls made in this page load, in order
  accepted,      \* number of sendMessage calls of this page load that passed the early return
  last           \* the last event and its input

vars == <<fastapi, messages, inputMessage, isLoading, isDarkMode, mounted,
          darkClass, localStorage, prefersDark, pending, requests, accepted, last>>

chat == <<messages, inputMessage, isLoading, pending, requests, accepted>>
theme == <<isDarkMode, darkClass, localStorage>>

Init ==
  /\ fastapi \in EndpointValues
  /\ messages = <<InitialMessage>>
  /\ inputMessage = <<>>
  /\ isLoading = FALSE
  /\ isDarkMode = FALSE
  /\ mounted = FALSE
  /\ darkClass = FALSE
  /\ localStorage \in {[theme |-> e] : e \in {JNull, DarkEntry, LightEntry}}
  /\ prefersDark \in BOOLEAN
  /\ pending = {}
  /\ requests = <<>>
  /\ accepted = 0
  /\ last = [op |-> "load", arg |-> "first"]

\* The two mount effects, in source order, and the render they cause: the
\* first reads the saved theme and calls setIsDarkMode, the second runs with
\* the flag of the first render (false), and runs again when the flag changed.
Mount ==
  /\ ~mounted
  /\ LET resolved == InitialDark(localStorage.theme, prefersDark)
         first == ApplyTheme(localStorage, isDarkMode)
     IN /\ isDarkMode' = resolved
        /\ localStorage' = IF resolved # isDarkMode THEN ApplyTheme(first, resolved) ELSE first
        /\ darkClass' = resolved
  /\ mounted' = TRUE
  /\ last' = [op |-> "mount", arg |-> last.op]
  /\ UNCHANGED <<fastapi, prefersDark, chat>>

\* toggleDarkMode and the applying effect of the render it causes
Toggle ==
  /\ mounted
  /\ isDarkMode' = ~isDarkMode
  /\ localStorage' = ApplyTheme(localStorage, ~isDarkMode)
  /\ darkClass' = ~isDarkMode
  /\ last' = [op |-> "toggle", arg |-> isDarkMode]
  /\ UNCHANGED <<fastapi, mounted, prefersDark, chat>>

\* the page is reloaded: component state starts over, localStorage stays,
\* the environment's preference may have changed meanwhile
Reload ==
  /\ mounted
  /\ messages' = <<InitialMessage>>
  /\ inputMessage' = <<>>
  /\ isLoading' = FALSE
  /\ isDarkMode' = FALSE
  /\ mounted' = FALSE
  /\ darkClass' = FALSE
  /\ prefersDark' \in BOOLEAN
  /\ pending' = {}
  /\ requests' = <<>>
  /\ accepted' = 0
  /\ last' = [op |-> "reload", arg |-> isDarkMode]
  /\ UNCHANGED <<fastapi, localStorage>>

\* onChange of the entry field, which is disabled while loading
SetInput(text) ==
  /\ mounted
  /\ ~isLoading
  /\ inputMessage' = text
  /\ last' = [op |-> "input", arg |-> text]
  /\ UNCHANGED <<fastapi, messages, isLoading, mounted, prefersDark, pending,
                 requests, accepted, theme>>

\* handleExampleClick
ExampleClick ==
  /\ mounted
  /\ inputMessage' = ExampleText
  /\ last' = [op |-> "example", arg |-> ExampleText]
  /\ UNCHANGED <<fastapi, messages, isLoading, mounted, prefersDark, pending,
                 requests, accepted, theme>>

\* sendMessage up to its first await
Submit ==
  /\ mounted
  /\ Len(messages) + 2 <= MaxMessages
  /\ IF Rejected(inputMessage, isLoading)
     THEN /\ last' = [op |-> "submit", arg |-> "rejected"]
          /\ UNCHANGED chat
     ELSE IF MissingEndpoint(fastapi)
     THEN /\ messages' = Append(messages, ConfigErrorMessage(Len(messages)))
          /\ accepted' = accepted + 1
          /\ last' = [op |-> "submit", arg |-> "unconfigured"]
          /\ UNCHANGED <<inputMessage, isLoading, pending, requests>>
     ELSE /\ messages' = Append(messages, UserMessage(Len(messages), inputMessage))
          /\ inputMessage' = <<>>
          /\ isLoading' = TRUE
          /\ requests' = Append(requests, [url |-> fastapi, method |-> "POST",
                                           body |-> RequestBody(inputMessage)])
          /\ pending' = pending \cup {[call |-> Len(requests) + 1,
                                       len |-> Len(messages), at |-> "fetch"]}
          /\ accepted' = accepted + 1
          /\ last' = [op |-> "submit", arg |-> "sent"]
  /\ UNCHANGED <<fastapi, mounted, prefersDark, theme>>

\* the rest of sendMessage once it appends `message`: setMessages with the
\* functional update, then the finally block
Settle(c, message, event) ==
  /\ messages' = Append(messages, message)
  /\ isLoading' = Finally(isLoading)
  /\ pending' = pending \ {c}
  /\ last' = event
  /\ UNCHANGED <<fastapi, inputMessage, mounted, prefersDark, requests, accepted, theme>>

\* the fetch promise resolves with a response of the given status
FetchResolve(c, status) ==
  /\ c \in pending /\ c.at = "fetch"
  /\ IF ResponseOk(status)
     THEN /\ pending' = (pending \ {c}) \cup {[c EXCEPT !.at = "json"]}
          /\ last' = [op |-> "response", arg |-> status]
          /\ UNCHANGED <<fastapi, messages, inputMessage, isLoading, mounted,
                         prefersDark, requests, accepted, theme>>
     ELSE Settle(c, ErrorMessage(c.len, HttpError(status)),
                 [op |-> "status", arg |-> status])

\* the fetch promise rejects
FetchReject(c, thrown) ==
  /\ c \in pending /\ c.at = "fetch"
  /\ Settle(c, ErrorMessage(c.len, thrown), [op |-> "fetchFailed", arg |-> thrown])

\* response.json() resolves with the decoded body
JsonResolve(c, data) ==
  /\ c \in pending /\ c.at = "json"
  /\ Settle(c, BodyMessage(c.len, data), [op |-> "body", arg |-> data])

\* response.json() rejects: the body is not JSON
JsonReject(c, thrown) ==
  /\ c \in pending /\ c.at = "json"
  /\ Settle(c, ErrorMessage(c.len, thrown), [op |-> "jsonFailed", arg |-> thrown])

Next ==
  \/ Mount
  \/ Toggle
  \/ Reload
  \/ \E text \in Drafts : SetInput(text)
  \/ ExampleClick
  \/ Submit
  \/ \E c \in pending, status \in Statuses : FetchResolve(c, status)
  \/ \E c \in pending, thrown \in FetchRejections : FetchReject(c, thrown)
  \/ \E c \in pending, data \in Bodies : JsonResolve(c, data)
  \/ \E c \in pending, thrown \in JsonRejections : JsonReject(c, thrown)

Spec == Init /\ [][Next]_vars

\* the shape of the state
TypeOK ==
  /\ fastapi \in EndpointValues
  /\ isLoading \in BOOLEAN /\ isDarkMode \in BOOLEAN /\ mounted \in BOOLEAN
  /\ Len(messages) \in 1..MaxMessages
  /\ accepted \in 0..MaxMessages

\* ------------------------------------------------------- reading the store
LastMessage == messages[Len(messages)]
IsError(m) == "isError" \in DOMAIN m /\ m.isError
Unconfigured == fastapi \in {JUndefined, JStr(<<>>)}
HasField(v, k) == v.t = "object" /\ \E i \in 1..Len(v.ps) : v.ps[i][1] = k
FieldOf(v, k) == v.ps[CHOOSE i \in 1..Len(v.ps) : v.ps[i][1] = k][2]

\* ---------------------------------------------------------------------- C1
\* C1: every sendMessage call that passes the early return appends one user
\* message at once and one agent or error message at settlement, whatever
\* the endpoint configuration: the store holds the greeting, two messages per
\* accepted call, less the one still owed by a call in flight.
C1_GrowsByTwo == Len(messages) = 1 + 2 * accepted - Cardinality(pending)

\* ---------------------------------------------------------------------- C2
\* C2: a sendMessage call with an empty or whitespace-only draft, or made
\* while isLoading, appends no message and issues no request.
C2_RejectedSubmitIsNoOp ==
  [][ last'.op = "submit" /\ (Trim(inputMessage) = <<>> \/ isLoading)
      => messages' = messages /\ requests' = requests /\ pending' = pending
         /\ isLoading' = isLoading ]_vars

\* a whitespace-only draft was submitted
C2_Witness ==
  /\ last.op = "submit" /\ last.arg = "rejected"
  /\ inputMessage # <<>> /\ Trim(inputMessage) = <<>>
  /\ ~isLoading

\* ---------------------------------------------------------------------- C3
\* C3: at most one sendMessage call is in flight in every reachable state,
\* and a sendMessage call made while one is in flight starts no request.
C3_AtMostOneInFlight ==
  /\ [](Cardinality(pending) <= 1)
  /\ [][ last'.op = "submit" /\ pending # {}
         => requests' = requests /\ pending' = pending ]_vars

\* a non-empty draft was submitted while a request was awaiting its body
C3_Witness ==
  /\ last.op = "submit" /\ last.arg = "rejected"
  /\ Trim(inputMessage) # <<>>
  /\ \E c \in pending : c.at = "json"

\* ---------------------------------------------------------------------- C4
\* C4: isLoading is true exactly while a request is in flight, on the
\* success path and on every failure path.
C4_LoadingIffInFlight == isLoading <=> pending # {}

\* a request has just failed and the flag is down
C4_Witness ==
  /\ last.op \in {"status", "fetchFailed", "jsonFailed"}
  /\ ~isLoading /\ pending = {}
  /\ Len(requests) = 2

\* ---------------------------------------------------------------------- C5
\* the text C5 names: a string body verbatim, else the first of the fields
\* response, message, content that is present, else the serialised body
C5_ClaimedText(data) ==
  IF data.t = "string" THEN data
  ELSE IF HasField(data, "response") THEN FieldOf(data, "response")
  ELSE IF HasField(data, "message") THEN FieldOf(data, "message")
  ELSE IF HasField(data, "content") THEN FieldOf(data, "content")
  ELSE JStr(Stringify(data))

\* C5: the agent message appended for a decoded success body carries the
\* text picked by the precedence string, response, message, content,
\* serialised body, a field counting as soon as it is present (the fallback
\* sentence standing in for an empty pick).
C5_PresencePrecedence ==
  last.op = "body"
  => LastMessage.text = (IF Truthy(C5_ClaimedText(last.arg))
                         THEN C5_ClaimedText(last.arg) ELSE JStr(FallbackText))

\* ---------------------------------------------------------------------- C6
\* C6: for the success bodies "" and null the appended message is a normal
\* agent message (isError not set) with the fallback sentence.
C6_FallbackForEmptyOrNull ==
  last.op = "body" /\ last.arg \in {JStr(<<>>), JNull}
  => /\ ~IsError(LastMessage)
     /\ LastMessage.sender = "agent"
     /\ LastMessage.text = JStr(FallbackText)

\* ---------------------------------------------------------------------- C7
\* C7 as stated: status 404 gives the not-found wording, every status of
\* the 500 class the internal-error wording, a fetch that could not complete
\* the CORS hint, and any other thrown Error the generic text with its
\* message.
C7_Original ==
  /\ last.op = "status" /\ last.arg = 404 => LastMessage.text = JStr(NotFoundText)
  /\ last.op = "status" /\ last.arg \in 500..599
     => LastMessage.text = JStr(InternalErrorText)
  /\ last.op = "fetchFailed" /\ last.arg.isErrorObject
     => LastMessage.text = JStr(CorsText)
  /\ last.op = "jsonFailed" /\ last.arg.isErrorObject
     => LastMessage.text = JStr(SorryPrefix \o last.arg.message)

\* C7 amended: status 404 gives the not-found wording and status 500 the
\* internal-error wording; every other failing status gives the generic
\* text with "HTTP error! status: N".  A thrown Error whose message contains
\* "Failed to fetch" gives the CORS hint; one that does not gives the generic
\* text with its message, unless the message contains "500" or "404", which
\* select the internal-error and the not-found wording.
C7_ErrorWording ==
  /\ last.op = "status" /\ last.arg = 404 => LastMessage.text = JStr(NotFoundText)
  /\ last.op = "status" /\ last.arg = 500 => LastMessage.text = JStr(InternalErrorText)
  /\ last.op = "status" /\ last.arg \notin {404, 500}
     => LastMessage.text
          = JStr(SorryPrefix \o HttpErrorPrefix \o NumberToString(last.arg))
  /\ last.op \in {"fetchFailed", "jsonFailed"} /\ last.arg.isErrorObject
     => LET m == last.arg.message
        IN LastMessage.text =
             JStr(CASE Includes(m, FailedToFetchText) -> CorsText
                    [] ~Includes(m, FailedToFetchText) /\ Includes(m, Needle500)
                       -> InternalErrorText
                    [] ~Includes(m, FailedToFetchText) /\ ~Includes(m, Needle500)
                       /\ Includes(m, Needle404) -> NotFoundText
                    [] OTHER -> SorryPrefix \o m)

\* a response with status 502 has been turned into the generic text
C7_Witness ==
  /\ last.op = "status" /\ last.arg = 502
  /\ IsError(LastMessage)

\* ---------------------------------------------------------------------- C8
\* C8: with no endpoint configured no request is ever issued, and every
\* sendMessage call with a non-empty trimmed draft appends the
\* configuration-error message marked isError.
C8_UnconfiguredNeverCalls ==
  /\ [](Unconfigured => requests = <<>> /\ pending = {})
  /\ [][ Unconfigured /\ last'.op = "submit" /\ Trim(inputMessage) # <<>>
         => /\ Len(messages') = Len(messages) + 1
            /\ messages'[Len(messages')].text = JStr(ConfigErrorText)
            /\ IsError(messages'[Len(messages')])
            /\ SubSeq(messages', 1, Len(messages)) = messages ]_vars

\* two submits in a row were answered with the configuration error
C8_Witness ==
  /\ Unconfigured
  /\ last.op = "submit" /\ last.arg = "unconfigured"
  /\ Len(messages) >= 3
  /\ requests = <<>>

\* ---------------------------------------------------------------------- C9
\* C9: a failed request leaves one agent message with isError, a successful
\* reply one agent message without isError, and either way the loading flag
\* is down afterwards.
C9_ErrorsSurfaced ==
  /\ last.op \in {"status", "fetchFailed", "jsonFailed"}
     => IsError(LastMessage) /\ LastMessage.sender = "agent" /\ ~isLoading
  /\ last.op = "body"
     => ~IsError(LastMessage) /\ LastMessage.sender = "agent" /\ ~isLoading

\* --------------------------------------------------------------------- C10
\* C10: a toggle flips the flag (so two in a row restore it); once mounted
\* the persisted entry is "dark" or "light" as the flag says; the mount that
\* follows a reload resolves to the flag before the reload; and a mount that
\* finds no entry resolves to the environment's preference.
C10_ThemePersists ==
  /\ [](mounted => localStorage.theme = (IF isDarkMode THEN DarkEntry ELSE LightEntry))
  /\ [][ last'.op = "toggle" => isDarkMode' = ~isDarkMode ]_vars
  /\ [][ last.op = "reload" /\ last'.op = "mount" => isDarkMode' = last.arg ]_vars
  /\ [][ last'.op = "mount" /\ localStorage.theme = JNull
         => isDarkMode' = prefersDark ]_vars

\* a dark theme chosen against the environment's preference survived a reload
C10_Witness ==
  /\ last.op = "mount" /\ last.arg = "reload"
  /\ isDarkMode /\ ~prefersDark

\* --------------------------------------------------------------------- C11
\* C11: in every reachable state the ids of the stored messages strictly
\* increase in store order (so no two messages share an id), with the
\* endpoint configured or not.
C11_IdsIncrease ==
  \A i \in 1..(Len(messages) - 1) : messages[i].id < messages[i + 1].id

\* a failed exchange, then a second accepted submit whose request is out
C11_Witness ==
  /\ Len(messages) = 4
  /\ IsError(messages[3])
  /\ messages[4].sender = "user"
  /\ last.op = "submit" /\ last.arg = "sent"

\* --------------------------------------------------------------------- C12
\* the user messages of the store, in store order
C12_UserMessages == SelectSeq(messages, LAMBDA m : m.sender = "user")

\* the characters a JSON decoder reads out of the inside of a string literal
RECURSIVE C12_Unquote(_)
C12_Unquote(s) ==
  IF s = <<>> THEN <<>>
  ELSE IF Head(s) = "\\" /\ Len(s) >= 2
       THEN <<s[2]>> \o C12_Unquote(SubSeq(s, 3, Len(s)))
       ELSE <<Head(s)>> \o C12_Unquote(Tail(s))

\* body is the JSON text of an object whose only member, message, is the
\* string text
C12_Carries(body, text) ==
  /\ Len(body) >= 8
  /\ SubSeq(body, 1, 6) = <<"{", "\"", "message", "\"", ":", "\"">>
  /\ SubSeq(body, Len(body) - 1, Len(body)) = <<"\"", "}">>
  /\ C12_Unquote(SubSeq(body, 7, Len(body) - 2)) = text

\* one POST per user message, the i-th carrying the i-th user text
C12_RequestsMatchUserMessages ==
  /\ Len(requests) = Len(C12_UserMessages)
  /\ \A i \in 1..Len(requests) :
       /\ requests[i].method = "POST"
       /\ requests[i].url = fastapi
       /\ C12_Carries(requests[i].body, C12_UserMessages[i].text.s)

\* C12 as stated: every sendMessage call that passes the early return issues
\* one POST, so the requests issued are as many as the accepted calls and as
\* many as the user messages, the i-th carrying the i-th user text.
C12_Original ==
  /\ Len(requests) = accepted
  /\ C12_RequestsMatchUserMessages

\* C12 amended: with an endpoint configured every accepted sendMessage call
\* issues exactly one POST with body { message: text }, text being the text
\* of the user message it appends, and clears the draft; with no endpoint
\* configured an accepted call issues no request and keeps the draft.  In
\* every reachable state the requests are as many as the user messages and
\* the i-th carries the i-th user text; a settlement issues no request.
C12_OnePostPerUserMessage ==
  /\ [](C12_RequestsMatchUserMessages)
  /\ [](~Unconfigured => Len(requests) = accepted)
  /\ [][ ~Unconfigured /\ last'.op = "submit" /\ Trim(inputMessage) # <<>> /\ ~isLoading
         => /\ Len(requests') = Len(requests) + 1
            /\ SubSeq(requests', 1, Len(requests)) = requests
            /\ messages' = Append(messages, [id |-> Len(messages) + 1,
                                             text |-> JStr(inputMessage),
                                             sender |-> "user"])
            /\ inputMessage' = <<>> ]_vars
  /\ [][ Unconfigured /\ last'.op = "submit"
         => requests' = requests /\ inputMessage' = inputMessage ]_vars
  /\ [][ last'.op \in {"response", "status", "fetchFailed", "body", "jsonFailed"}
         => requests' = requests /\ Cardinality(pending') <= Cardinality(pending) ]_vars

\* after a failed first exchange a second request carries a draft with a
\* quote and outer blanks
C12_Witness ==
  /\ Len(requests) = 2
  /\ IsError(messages[3])
  /\ C12_UserMessages[2].text.s = <<" ", "\"", "a", " ">>
  /\ C12_Carries(requests[2].body, <<" ", "\"", "a", " ">>)

====
